---- MODULE Spec2Model ----
(***************************************************************************)
(* password-hash-service: the record store (storage.go), the statistics    *)
(* aggregator (stats storage) and the request goroutines that call them.   *)
(* net/http runs every request in a goroutine of its own, so every call of *)
(* AddPassword, GetPasswordHash, Update and GetCurrentStats is a process   *)
(* with a program counter; a step of a process is one statement (or one    *)
(* half of a lock operation) of the source.                                *)
(***************************************************************************)
EXTENDS Integers, Sequences, FiniteSets, TLC

\* ------------------------------------------------------------------ bounds
MaxSubmits  == 2        \* AddPassword calls in one behaviour, all may overlap
MaxUpdates  == 3        \* Update calls in one behaviour, all may overlap
MaxRequests == 2        \* requests the server accepts in one behaviour, all may overlap

Calls    == 1 .. MaxSubmits
Updates  == 1 .. MaxUpdates
Requests == 1 .. MaxRequests
\* the goroutines that call GetPasswordHash / GetCurrentStats, over and over
Readers  == {1}
\* passwords posted to /hash (non-empty: the handler rejects ""), in the order
\* they are first used: the first call posts the first, a later call any of them
Secrets  == <<"angryMonkey", "a">>
SecretsOf(c) == {Secrets[n] : n \in {x \in DOMAIN Secrets : x <= c}}
\* keys asked of GetPasswordHash: 0, every key that can exist, and one more
FetchKeys == 0 .. (MaxSubmits + 1)
\* elapsed.Microseconds() of a request
Elapsed  == {0, 1, 2, 1000, 2000, 3000}

\* elapsed.Microseconds() of a request the server handled: about a millisecond
HandlerElapsed == {1000}

\* goroutine identities, as holders of a lock
Req(c)   == <<"req", c>>
Task(c)  == <<"task", c>>
Rdr(r)   == <<"reader", r>>

VARIABLES
    mu,          \* HashStorage.mu
    data,        \* HashStorage.data
    currentKey,  \* HashStorage.currentKey
    sub,         \* AddPassword call c (calls are numbered in the order they are invoked):
                 \*   pc, pw, u; history: rank (its place in the order the counter
                 \*   lock was taken), prior (the largest key returned before c was invoked)
    task,        \* the goroutine spawned by AddPassword call c: pc, u, pw, encodedHash
    get,         \* reader r in GetPasswordHash: pc, u, encodedHash, ok
    firstRet,    \* history: the key of the first AddPassword call to return (0: none yet)
    smu,         \* HashStatsStorage.mu
    Stats,       \* HashStatsStorage.Stats
    upd,         \* Update call i: pc, elapsed
    snap,        \* reader r in GetCurrentStats: pc, and the HashStats copy being returned
    applied,     \* history: the elapsed values, in the order Update took the lock
    held,        \* history: every (Total, Average) the aggregator held outside an Update
    rq,          \* request q (numbered in the order of arrival): pc, kind, deferred
                 \*   (an Update is deferred), call (the call it is waiting for),
                 \*   add (the AddPassword call it made, 0: none)
    once,        \* HashService.once: done, and m, the goroutines inside its mutex
    closer,      \* the goroutine spawned by request q inside once.Do ("none": not spawned)
    inShutdown,  \* srv.Shutdown has been called: the listeners are closed
    closes,      \* the number of close(s.idleConnsClosed) executed
    run          \* Run, after the routes are registered: "serve", "await", "returned"

storeVars == <<mu, data, currentKey, sub, task, get, firstRet>>
statsVars == <<smu, Stats, upd, snap, applied, held>>
svcVars   == <<rq, once, closer, inShutdown, closes, run>>
vars      == <<storeVars, statsVars, svcVars>>

\* ------------------------------------------------------- sync.RWMutex
\* w: the goroutines inside the writers' mutex (at most one: it has announced
\* itself, and no new reader is admitted while it is there); excl: the writer
\* that has also seen the last reader leave and owns the lock; readers: the
\* goroutines holding a read lock.
NewRWMutex == [w |-> {}, excl |-> {}, readers |-> {}]

\* Lock(), first half: take the writers' mutex and announce a pending writer.
\* (faulty variant: a Lock that does not keep a second writer out)
NoWriterExclusion(m) == TRUE
CanAnnounce(m) == m.w = {}
Announced(m, g) == [m EXCEPT !.w = @ \cup {g}]

\* (faulty variant: the writer does not wait for the readers to leave)
LockDespiteReaders(m, g) == g \in m.w
\* Lock(), second half: wait until the active readers have left.
CanLock(m, g) == g \in m.w /\ m.readers = {}
Locked(m, g) == [m EXCEPT !.excl = @ \cup {g}]

\* Unlock()
\* (faulty variant: an Unlock that is forgotten)
LeakedLock(m, g) == m
Unlocked(m, g) == [m EXCEPT !.w = @ \ {g}, !.excl = @ \ {g}]

\* RLock(): blocked while a writer holds the lock or is pending.
\* (faulty variant: an RLock that does not wait for a writer)
NoReaderExclusion(m) == TRUE
CanRLock(m) == m.w = {}
RLocked(m, g) == [m EXCEPT !.readers = @ \cup {g}]

\* (faulty variant: the read lock is not released)
LeakedRLock(m, g) == m
\* RUnlock()
RUnlocked(m, g) == [m EXCEPT !.readers = @ \ {g}]

\* ------------------------------------------------------------- the digest
\* base64.StdEncoding.EncodeToString(sha512.Sum(pw)), tabulated for Secrets.
SHA512Base64(pw) ==
    CASE pw = "angryMonkey" ->
           "ZEHhWB65gUlzdVwtDQArEyx+KVLzp/aTaRaPlBzYRIFj6vjFdqEb0Q5B8zVKCZ0vKbZPZklJz0Fd7su2A+gf7Q=="
      [] pw = "a" ->
           "H0D8ktokFpR1CXnubPWC8tXX0o4YM13gWrxU0FYOD1MChgxlK/CNVgJSql50IQVG82n7u86MEs/HlXsmUv6adQ=="

\* ------------------------------------------------------------ HashStorage
NewCall  == [pc |-> "new", pw |-> "", u |-> 0, rank |-> 0, prior |-> 0]
NoTask   == [pc |-> "none", u |-> 0, pw |-> "", encodedHash |-> ""]
NoGet    == [pc |-> "idle", u |-> 0, encodedHash |-> "", ok |-> FALSE]

\* s.data[u] = encodedHash
\* (faulty variants: the goroutine indexes with s.currentKey instead of its
\* captured u; the map is replaced instead of extended)
MapPutAtCounter(d, k, v) ==
    [x \in DOMAIN d \cup {currentKey} |-> IF x = currentKey THEN v ELSE d[x]]
MapPutFresh(d, k, v) == [x \in {k} |-> v]
MapPut(d, k, v) == [x \in DOMAIN d \cup {k} |-> IF x = k THEN v ELSE d[x]]

\* s.currentKey++
\* (faulty variant: the increment is missing)
KeyNotIncremented(k) == k
NextKey(k) == k + 1

Max(S) == IF S = {} THEN 0 ELSE CHOOSE x \in S : \A y \in S : y <= x

\* the AddPassword calls that have returned, and the keys they returned
Returned == {c \in Calls : sub[c].pc = "returned"}
ReturnedKeys == {sub[c].u : c \in Returned}
\* the AddPassword calls that have taken the counter lock
Ranked == {c \in Calls : sub[c].rank # 0}

\* hashPostHandler calls s.storage.AddPassword(pw)
SubmitInvoke(c, pw) ==
    /\ sub[c].pc = "new"
    /\ \A b \in Calls : b < c => sub[b].pc # "new"
    /\ sub' = [sub EXCEPT ![c] = [NewCall EXCEPT !.pc = "a_lock1", !.pw = pw,
                                                 !.prior = Max(ReturnedKeys)]]
    /\ UNCHANGED <<mu, data, currentKey, task, get, firstRet, statsVars>>

\* s.mu.Lock(): the writers' mutex
SubmitAnnounce(c) ==
    /\ sub[c].pc = "a_lock1"
    /\ CanAnnounce(mu)
    /\ mu' = Announced(mu, Req(c))
    /\ sub' = [sub EXCEPT ![c].pc = "a_lock2"]
    /\ UNCHANGED <<data, currentKey, task, get, firstRet, statsVars>>

\* s.mu.Lock(): the readers have left
SubmitLock(c) ==
    /\ sub[c].pc = "a_lock2"
    /\ CanLock(mu, Req(c))
    /\ mu' = Locked(mu, Req(c))
    /\ sub' = [sub EXCEPT ![c].pc = "a_inc", ![c].rank = Cardinality(Ranked) + 1]
    /\ UNCHANGED <<data, currentKey, task, get, firstRet, statsVars>>

\* s.currentKey++
SubmitInc(c) ==
    /\ sub[c].pc = "a_inc"
    /\ currentKey' = NextKey(currentKey)
    /\ sub' = [sub EXCEPT ![c].pc = "a_read"]
    /\ UNCHANGED <<mu, data, task, get, firstRet, statsVars>>

\* u := s.currentKey
SubmitRead(c) ==
    /\ sub[c].pc = "a_read"
    /\ sub' = [sub EXCEPT ![c].pc = "a_unlock", ![c].u = currentKey]
    /\ UNCHANGED <<mu, data, currentKey, task, get, firstRet, statsVars>>

\* s.mu.Unlock()
SubmitUnlock(c) ==
    /\ sub[c].pc = "a_unlock"
    /\ mu' = Unlocked(mu, Req(c))
    /\ sub' = [sub EXCEPT ![c].pc = "a_go"]
    /\ UNCHANGED <<data, currentKey, task, get, firstRet, statsVars>>

\* go func() { ... }(): the closure captures u and pw
SubmitGo(c) ==
    /\ sub[c].pc = "a_go"
    /\ task' = [task EXCEPT ![c] =
                   [pc |-> "sleep", u |-> sub[c].u, pw |-> sub[c].pw, encodedHash |-> ""]]
    /\ sub' = [sub EXCEPT ![c].pc = "a_ret"]
    /\ UNCHANGED <<mu, data, currentKey, get, firstRet, statsVars>>

\* (faulty variant: AddPassword hashes before it returns: the return waits
\* for the end of the spawned goroutine)
SubmitReturnAfterTask(c) ==
    /\ task[c].pc \in {"done", "failed"}
    /\ sub[c].pc = "a_ret"
    /\ sub' = [sub EXCEPT ![c].pc = "returned"]
    /\ firstRet' = IF Returned = {} THEN sub[c].u ELSE firstRet
    /\ UNCHANGED <<mu, data, currentKey, task, get, statsVars>>
\* return u
SubmitReturn(c) ==
    /\ sub[c].pc = "a_ret"
    /\ sub' = [sub EXCEPT ![c].pc = "returned"]
    /\ firstRet' = IF Returned = {} THEN sub[c].u ELSE firstRet
    /\ UNCHANGED <<mu, data, currentKey, task, get, statsVars>>

\* time.Sleep(5 * time.Second) is over
TaskWake(c) ==
    /\ task[c].pc = "sleep"
    /\ task' = [task EXCEPT ![c].pc = "hash"]
    /\ UNCHANGED <<mu, data, currentKey, sub, get, firstRet, statsVars>>

\* alg.Write succeeded; encodedHash := base64(alg.Sum(nil))
TaskHash(c) ==
    /\ task[c].pc = "hash"
    /\ task' = [task EXCEPT ![c].pc = "lock1",
                            ![c].encodedHash = SHA512Base64(task[c].pw)]
    /\ UNCHANGED <<mu, data, currentKey, sub, get, firstRet, statsVars>>

\* (faulty variant: the error is logged but the empty digest is stored)
TaskHashErrStores(c) ==
    /\ task[c].pc = "hash"
    /\ task' = [task EXCEPT ![c].pc = "failed"]
    /\ data' = MapPut(data, task[c].u, "")
    /\ UNCHANGED <<mu, currentKey, sub, get, firstRet, statsVars>>
\* alg.Write returned an error: log it and return
TaskHashErr(c) ==
    /\ task[c].pc = "hash"
    /\ task' = [task EXCEPT ![c].pc = "failed"]
    /\ UNCHANGED <<mu, data, currentKey, sub, get, firstRet, statsVars>>

\* s.mu.Lock(): the writers' mutex
TaskAnnounce(c) ==
    /\ task[c].pc = "lock1"
    /\ CanAnnounce(mu)
    /\ mu' = Announced(mu, Task(c))
    /\ task' = [task EXCEPT ![c].pc = "lock2"]
    /\ UNCHANGED <<data, currentKey, sub, get, firstRet, statsVars>>

\* s.mu.Lock(): the readers have left
TaskLock(c) ==
    /\ task[c].pc = "lock2"
    /\ CanLock(mu, Task(c))
    /\ mu' = Locked(mu, Task(c))
    /\ task' = [task EXCEPT ![c].pc = "insert"]
    /\ UNCHANGED <<data, currentKey, sub, get, firstRet, statsVars>>

\* s.data[u] = encodedHash
TaskInsert(c) ==
    /\ task[c].pc = "insert"
    /\ data' = MapPut(data, task[c].u, task[c].encodedHash)
    /\ task' = [task EXCEPT ![c].pc = "unlock"]
    /\ UNCHANGED <<mu, currentKey, sub, get, firstRet, statsVars>>

\* defer s.mu.Unlock()
TaskUnlock(c) ==
    /\ task[c].pc = "unlock"
    /\ mu' = Unlocked(mu, Task(c))
    /\ task' = [task EXCEPT ![c].pc = "done"]
    /\ UNCHANGED <<data, currentKey, sub, get, firstRet, statsVars>>

\* hashGetHandler calls s.storage.GetPasswordHash(u)
FetchInvoke(r, k) ==
    /\ get[r].pc = "idle"
    /\ get' = [get EXCEPT ![r] = [NoGet EXCEPT !.pc = "f_rlock", !.u = k]]
    /\ UNCHANGED <<mu, data, currentKey, sub, task, firstRet, statsVars>>

\* s.mu.RLock()
FetchRLock(r) ==
    /\ get[r].pc = "f_rlock"
    /\ CanRLock(mu)
    /\ mu' = RLocked(mu, Rdr(r))
    /\ get' = [get EXCEPT ![r].pc = "f_read"]
    /\ UNCHANGED <<data, currentKey, sub, task, firstRet, statsVars>>

\* encodedHash, ok = s.data[u]
FetchRead(r) ==
    /\ get[r].pc = "f_read"
    /\ get' = [get EXCEPT ![r].pc = "f_runlock",
                          ![r].ok = get[r].u \in DOMAIN data,
                          ![r].encodedHash =
                              IF get[r].u \in DOMAIN data THEN data[get[r].u] ELSE ""]
    /\ UNCHANGED <<mu, data, currentKey, sub, task, firstRet, statsVars>>

\* defer s.mu.RUnlock(); return encodedHash, ok
FetchRUnlock(r) ==
    /\ get[r].pc = "f_runlock"
    /\ mu' = RUnlocked(mu, Rdr(r))
    /\ get' = [get EXCEPT ![r] = NoGet]
    /\ UNCHANGED <<data, currentKey, sub, task, firstRet, statsVars>>

\* ------------------------------------------------------- HashStatsStorage
NoUpdate == [pc |-> "new", elapsed |-> 0]
NoSnap   == [pc |-> "idle", Total |-> 0, Average |-> 0]

\* (s.Stats.Average*s.Stats.Total + uint64(elapsed.Microseconds())) / (s.Stats.Total + 1)
\* (uint64; the products of this model stay far below 2^64)
NewAverage(average, total, elapsed) == (average * total + elapsed) \div (total + 1)

\* a handler's deferred s.stats.Update(startTime); elapsed := time.Now().Sub(startTime)
UpdateInvoke(i, e) ==
    /\ upd[i].pc = "new"
    /\ \A j \in Updates : j < i => upd[j].pc # "new"
    /\ upd' = [upd EXCEPT ![i] = [pc |-> "u_lock1", elapsed |-> e]]
    /\ UNCHANGED <<smu, Stats, snap, applied, held, storeVars>>

\* s.mu.Lock(): the writers' mutex
UpdateAnnounce(i) ==
    /\ upd[i].pc = "u_lock1"
    /\ CanAnnounce(smu)
    /\ smu' = Announced(smu, Req(i))
    /\ upd' = [upd EXCEPT ![i].pc = "u_lock2"]
    /\ UNCHANGED <<Stats, snap, applied, held, storeVars>>

\* s.mu.Lock(): the readers have left
UpdateLock(i) ==
    /\ upd[i].pc = "u_lock2"
    /\ CanLock(smu, Req(i))
    /\ smu' = Locked(smu, Req(i))
    /\ applied' = Append(applied, upd[i].elapsed)
    /\ upd' = [upd EXCEPT ![i].pc = "u_avg"]
    /\ UNCHANGED <<Stats, snap, held, storeVars>>

\* s.Stats.Average = (s.Stats.Average*s.Stats.Total + elapsed) / (s.Stats.Total + 1)
UpdateAverage(i) ==
    /\ upd[i].pc = "u_avg"
    /\ Stats' = [Stats EXCEPT !.Average = NewAverage(Stats.Average, Stats.Total, upd[i].elapsed)]
    /\ upd' = [upd EXCEPT ![i].pc = "u_inc"]
    /\ UNCHANGED <<smu, snap, applied, held, storeVars>>

\* s.Stats.Total++
UpdateTotal(i) ==
    /\ upd[i].pc = "u_inc"
    /\ Stats' = [Stats EXCEPT !.Total = @ + 1]
    /\ upd' = [upd EXCEPT ![i].pc = "u_unlock"]
    /\ UNCHANGED <<smu, snap, applied, held, storeVars>>

\* return, and the deferred s.mu.Unlock()
UpdateUnlock(i) ==
    /\ upd[i].pc = "u_unlock"
    /\ smu' = Unlocked(smu, Req(i))
    /\ held' = held \cup {Stats}
    /\ upd' = [upd EXCEPT ![i].pc = "done"]
    /\ UNCHANGED <<Stats, snap, applied, storeVars>>

\* statsHandler calls s.stats.GetCurrentStats()
SnapInvoke(r) ==
    /\ snap[r].pc = "idle"
    /\ snap' = [snap EXCEPT ![r].pc = "s_rlock"]
    /\ UNCHANGED <<smu, Stats, upd, applied, held, storeVars>>

\* s.mu.RLock()
SnapRLock(r) ==
    /\ snap[r].pc = "s_rlock"
    /\ CanRLock(smu)
    /\ smu' = RLocked(smu, Rdr(r))
    /\ snap' = [snap EXCEPT ![r].pc = "s_total"]
    /\ UNCHANGED <<Stats, upd, applied, held, storeVars>>

\* return s.Stats: the copy of the field Total
SnapCopyTotal(r) ==
    /\ snap[r].pc = "s_total"
    /\ snap' = [snap EXCEPT ![r].pc = "s_average", ![r].Total = Stats.Total]
    /\ UNCHANGED <<smu, Stats, upd, applied, held, storeVars>>

\* return s.Stats: the copy of the field Average
SnapCopyAverage(r) ==
    /\ snap[r].pc = "s_average"
    /\ snap' = [snap EXCEPT ![r].pc = "s_runlock", ![r].Average = Stats.Average]
    /\ UNCHANGED <<smu, Stats, upd, applied, held, storeVars>>

\* the deferred s.mu.RUnlock(); the copy is returned
SnapRUnlock(r) ==
    /\ snap[r].pc = "s_runlock"
    /\ smu' = RUnlocked(smu, Rdr(r))
    /\ snap' = [snap EXCEPT ![r] = NoSnap]
    /\ UNCHANGED <<Stats, upd, applied, held, storeVars>>

\* ------------------------------------------------------------- HashService
\* The requests of service.go (Run): which route and method a request has,
\* and, for POST /hash, whether it carries a password.
PostHash      == "POST /hash password"
PostHashEmpty == "POST /hash"
GetOnHash     == "GET /hash"
GetHashId     == "GET /hash/{id}"
GetStats      == "GET /stats"
PostShutdown  == "POST /shutdown"
Kinds == {PostHash, PostHashEmpty, GetOnHash, GetHashId, GetStats, PostShutdown}

NoRequest == [pc |-> "new", kind |-> "", deferred |-> FALSE, call |-> 0, add |-> 0]

\* hashPostHandler, case http.MethodPost: defer s.stats.Update(startTime).
\* No other handler, and no other branch of this one, mentions s.stats.Update.
\* (faulty variant: every handler defers the Update)
EveryRequestRecords(kind) == TRUE
RecordsLatency(kind) == kind \in {PostHash, PostHashEmpty}

\* the requests whose handler has not returned: their connections are active
Active == {q \in Requests : rq[q].pc \notin {"new", "done"}}

\* srv.Shutdown waits for the connections to become idle: for the handlers,
\* and for nothing else (the goroutines AddPassword spawned are not its concern)
\* (faulty variant: Shutdown also waits for the spawned goroutines)
ShutdownDrainsTasks ==
    Active = {} /\ \A c \in Calls : task[c].pc \in {"none", "done", "failed"}
ShutdownMayReturn == Active = {}

\* <-s.idleConnsClosed
\* (faulty variant: Run does not wait for the channel)
RunDoesNotWait == TRUE
ChannelClosed == closes > 0

\* sync.Once: o.m is a mutex
\* (faulty variant: the check of o.done is not under the mutex)
OnceWithoutMutex(o) == TRUE
CanOnceLock(o) == o.m = {}

\* the server accepts a request and starts its handler in a goroutine of its
\* own; requests are numbered in the order they arrive. In hashPostHandler the
\* POST branch registers the deferred Update before anything else.
Arrive(q, kind) ==
    /\ rq[q].pc = "new"
    /\ \A p \in Requests : p < q => rq[p].pc # "new"
    /\ ~inShutdown
    /\ rq' = [rq EXCEPT ![q] = [NoRequest EXCEPT !.pc = "body", !.kind = kind,
                                                 !.deferred = RecordsLatency(kind)]]
    /\ UNCHANGED <<once, closer, inShutdown, closes, run, storeVars, statsVars>>

\* hashPostHandler: pw == "": 400 Bad Request
PostBadRequest(q) ==
    /\ rq[q].pc = "body" /\ rq[q].kind = PostHashEmpty
    /\ rq' = [rq EXCEPT ![q].pc = "exit"]
    /\ UNCHANGED <<once, closer, inShutdown, closes, run, storeVars, statsVars>>

\* hashPostHandler: u := s.storage.AddPassword(pw)
PostAdd(q, c, pw) ==
    /\ rq[q].pc = "body" /\ rq[q].kind = PostHash
    /\ SubmitInvoke(c, pw)
    /\ rq' = [rq EXCEPT ![q].pc = "in_add", ![q].call = c, ![q].add = c]
    /\ UNCHANGED <<once, closer, inShutdown, closes, run>>

\* hashPostHandler: AddPassword has returned; 201 Created with the key
PostCreated(q) ==
    /\ rq[q].pc = "in_add"
    /\ sub[rq[q].call].pc = "returned"
    /\ rq' = [rq EXCEPT ![q].pc = "exit"]
    /\ UNCHANGED <<once, closer, inShutdown, closes, run, storeVars, statsVars>>

\* hashPostHandler, default branch (and the like of the other handlers):
\* 405 Method Not Allowed
MethodNotAllowed(q) ==
    /\ rq[q].pc = "body" /\ rq[q].kind = GetOnHash
    /\ rq' = [rq EXCEPT ![q].pc = "exit"]
    /\ UNCHANGED <<once, closer, inShutdown, closes, run, storeVars, statsVars>>

\* hashGetHandler: encodedHash, ok := s.storage.GetPasswordHash(u)
GetFetch(q, r, k) ==
    /\ rq[q].pc = "body" /\ rq[q].kind = GetHashId
    /\ \A p \in Requests : ~(rq[p].pc = "in_get" /\ rq[p].call = r)
    /\ FetchInvoke(r, k)
    /\ rq' = [rq EXCEPT ![q].pc = "in_get", ![q].call = r]
    /\ UNCHANGED <<once, closer, inShutdown, closes, run>>

\* hashGetHandler: GetPasswordHash has returned; 200 with the digest, or 404
GetRespond(q) ==
    /\ rq[q].pc = "in_get"
    /\ get[rq[q].call].pc = "idle"
    /\ rq' = [rq EXCEPT ![q].pc = "exit"]
    /\ UNCHANGED <<once, closer, inShutdown, closes, run, storeVars, statsVars>>

\* statsHandler: stats := s.stats.GetCurrentStats()
StatsSnap(q, r) ==
    /\ rq[q].pc = "body" /\ rq[q].kind = GetStats
    /\ \A p \in Requests : ~(rq[p].pc = "in_snap" /\ rq[p].call = r)
    /\ SnapInvoke(r)
    /\ rq' = [rq EXCEPT ![q].pc = "in_snap", ![q].call = r]
    /\ UNCHANGED <<once, closer, inShutdown, closes, run>>

\* statsHandler: GetCurrentStats has returned; 200 with the JSON of the copy
StatsRespond(q) ==
    /\ rq[q].pc = "in_snap"
    /\ snap[rq[q].call].pc = "idle"
    /\ rq' = [rq EXCEPT ![q].pc = "exit"]
    /\ UNCHANGED <<once, closer, inShutdown, closes, run, storeVars, statsVars>>

\* shutdownHandler: s.initiateShutdown(): s.once.Do(f), the fast path:
\* if o.done is set, Do returns at once
OnceLoad(q) ==
    /\ rq[q].pc = "body" /\ rq[q].kind = PostShutdown
    /\ rq' = [rq EXCEPT ![q].pc = IF once.done THEN "once_ret" ELSE "o_lock"]
    /\ UNCHANGED <<once, closer, inShutdown, closes, run, storeVars, statsVars>>

\* once.Do, doSlow: o.m.Lock()
OnceLock(q) ==
    /\ rq[q].pc = "o_lock"
    /\ CanOnceLock(once)
    /\ once' = [once EXCEPT !.m = @ \cup {q}]
    /\ rq' = [rq EXCEPT ![q].pc = "o_check"]
    /\ UNCHANGED <<closer, inShutdown, closes, run, storeVars, statsVars>>

\* once.Do, doSlow: if o.done == 0 { defer o.done.Store(1); f() }
OnceCheck(q) ==
    /\ rq[q].pc = "o_check"
    /\ rq' = [rq EXCEPT ![q].pc = IF once.done THEN "o_unlock" ELSE "o_f"]
    /\ UNCHANGED <<once, closer, inShutdown, closes, run, storeVars, statsVars>>

\* (faulty variant: f runs the shutdown sequence itself, without "go", so
\* initiateShutdown waits in srv.Shutdown for its own request to finish)
OnceFSynchronous(q) ==
    /\ rq[q].pc = "o_f"
    /\ closer' = [closer EXCEPT ![q] = "shutdown"]
    /\ rq' = [rq EXCEPT ![q].pc = "o_wait"]
    /\ UNCHANGED <<once, inShutdown, closes, run, storeVars, statsVars>>
\* f(): go func() { srv.Shutdown; close(idleConnsClosed) }(): the goroutine
\* is spawned and f returns
OnceF(q) ==
    /\ rq[q].pc = "o_f"
    /\ closer' = [closer EXCEPT ![q] = "shutdown"]
    /\ rq' = [rq EXCEPT ![q].pc = "o_store"]
    /\ UNCHANGED <<once, inShutdown, closes, run, storeVars, statsVars>>

\* once.Do, doSlow: the deferred o.done.Store(1)
OnceStore(q) ==
    /\ rq[q].pc = "o_store"
    /\ once' = [once EXCEPT !.done = TRUE]
    /\ rq' = [rq EXCEPT ![q].pc = "o_unlock"]
    /\ UNCHANGED <<closer, inShutdown, closes, run, storeVars, statsVars>>

\* once.Do, doSlow: the deferred o.m.Unlock(); initiateShutdown returns
OnceUnlock(q) ==
    /\ rq[q].pc = "o_unlock"
    /\ once' = [once EXCEPT !.m = @ \ {q}]
    /\ rq' = [rq EXCEPT ![q].pc = "once_ret"]
    /\ UNCHANGED <<closer, inShutdown, closes, run, storeVars, statsVars>>

\* shutdownHandler: 200 OK after initiateShutdown has returned
ShutdownRespond(q) ==
    /\ rq[q].pc = "once_ret"
    /\ rq' = [rq EXCEPT ![q].pc = "exit"]
    /\ UNCHANGED <<once, closer, inShutdown, closes, run, storeVars, statsVars>>

\* the handler returns and its deferred call runs: s.stats.Update(startTime)
DeferredUpdate(q, i, e) ==
    /\ rq[q].pc = "exit" /\ rq[q].deferred
    /\ UpdateInvoke(i, e)
    /\ rq' = [rq EXCEPT ![q].pc = "in_update", ![q].call = i]
    /\ UNCHANGED <<once, closer, inShutdown, closes, run>>

\* the deferred Update has returned: the request is complete
UpdateReturned(q) ==
    /\ rq[q].pc = "in_update"
    /\ upd[rq[q].call].pc = "done"
    /\ rq' = [rq EXCEPT ![q].pc = "done"]
    /\ UNCHANGED <<once, closer, inShutdown, closes, run, storeVars, statsVars>>

\* the handler returns and nothing was deferred: the request is complete
HandlerReturn(q) ==
    /\ rq[q].pc = "exit" /\ ~rq[q].deferred
    /\ rq' = [rq EXCEPT ![q].pc = "done"]
    /\ UNCHANGED <<once, closer, inShutdown, closes, run, storeVars, statsVars>>

\* the goroutine of initiateShutdown: s.srv.Shutdown(context.Background())
\* closes the listeners, so no request is accepted any more ...
CloserShutdown(q) ==
    /\ closer[q] = "shutdown"
    /\ inShutdown' = TRUE
    /\ closer' = [closer EXCEPT ![q] = "wait_idle"]
    /\ UNCHANGED <<rq, once, closes, run, storeVars, statsVars>>

\* ... and returns when every connection is idle
CloserIdle(q) ==
    /\ closer[q] = "wait_idle"
    /\ ShutdownMayReturn
    /\ closer' = [closer EXCEPT ![q] = "close"]
    /\ UNCHANGED <<rq, once, inShutdown, closes, run, storeVars, statsVars>>

\* close(s.idleConnsClosed); closes counts the close statements executed
\* (a second one panics)
CloserClose(q) ==
    /\ closer[q] = "close"
    /\ closes' = closes + 1
    /\ closer' = [closer EXCEPT ![q] = "done"]
    /\ UNCHANGED <<rq, once, inShutdown, run, storeVars, statsVars>>

\* Run: s.srv.ListenAndServe() returns http.ErrServerClosed once Shutdown
\* has been called
RunServeReturns ==
    /\ run = "serve"
    /\ inShutdown
    /\ run' = "await"
    /\ UNCHANGED <<rq, once, closer, inShutdown, closes, storeVars, statsVars>>

\* Run: <-s.idleConnsClosed, then Run returns
RunAwait ==
    /\ run = "await"
    /\ ChannelClosed
    /\ run' = "returned"
    /\ UNCHANGED <<rq, once, closer, inShutdown, closes, storeVars, statsVars>>

\* NewHashService: NewHashStorage() and NewHashStatsStorage(); no request yet
Init ==
    /\ mu = NewRWMutex
    /\ data = << >>
    /\ currentKey = 0
    /\ sub = [c \in Calls |-> NewCall]
    /\ task = [c \in Calls |-> NoTask]
    /\ get = [r \in Readers |-> NoGet]
    /\ firstRet = 0
    /\ smu = NewRWMutex
    /\ Stats = [Total |-> 0, Average |-> 0]
    /\ upd = [i \in Updates |-> NoUpdate]
    /\ snap = [r \in Readers |-> NoSnap]
    /\ applied = << >>
    /\ held = {[Total |-> 0, Average |-> 0]}
    /\ rq = [q \in Requests |-> NoRequest]
    /\ once = [done |-> FALSE, m |-> {}]
    /\ closer = [q \in Requests |-> "none"]
    /\ inShutdown = FALSE
    /\ closes = 0
    /\ run = "serve"

StatsNext ==
    \/ \E i \in Updates, e \in Elapsed : UpdateInvoke(i, e) /\ UNCHANGED svcVars
    \/ \E i \in Updates : UpdateAnnounce(i) /\ UNCHANGED svcVars
    \/ \E i \in Updates : UpdateLock(i) /\ UNCHANGED svcVars
    \/ \E i \in Updates : UpdateAverage(i) /\ UNCHANGED svcVars
    \/ \E i \in Updates : UpdateTotal(i) /\ UNCHANGED svcVars
    \/ \E i \in Updates : UpdateUnlock(i) /\ UNCHANGED svcVars
    \/ \E r \in Readers : SnapInvoke(r) /\ UNCHANGED svcVars
    \/ \E r \in Readers : SnapRLock(r) /\ UNCHANGED svcVars
    \/ \E r \in Readers : SnapCopyTotal(r) /\ UNCHANGED svcVars
    \/ \E r \in Readers : SnapCopyAverage(r) /\ UNCHANGED svcVars
    \/ \E r \in Readers : SnapRUnlock(r) /\ UNCHANGED svcVars

StoreNext ==
    \/ \E c \in Calls : \E pw \in SecretsOf(c) : SubmitInvoke(c, pw) /\ UNCHANGED svcVars
    \/ \E c \in Calls : SubmitAnnounce(c) /\ UNCHANGED svcVars
    \/ \E c \in Calls : SubmitLock(c) /\ UNCHANGED svcVars
    \/ \E c \in Calls : SubmitInc(c) /\ UNCHANGED svcVars
    \/ \E c \in Calls : SubmitRead(c) /\ UNCHANGED svcVars
    \/ \E c \in Calls : SubmitUnlock(c) /\ UNCHANGED svcVars
    \/ \E c \in Calls : SubmitGo(c) /\ UNCHANGED svcVars
    \/ \E c \in Calls : SubmitReturn(c) /\ UNCHANGED svcVars
    \/ \E c \in Calls : TaskWake(c) /\ UNCHANGED svcVars
    \/ \E c \in Calls : TaskHash(c) /\ UNCHANGED svcVars
    \/ \E c \in Calls : TaskHashErr(c) /\ UNCHANGED svcVars
    \/ \E c \in Calls : TaskAnnounce(c) /\ UNCHANGED svcVars
    \/ \E c \in Calls : TaskLock(c) /\ UNCHANGED svcVars
    \/ \E c \in Calls : TaskInsert(c) /\ UNCHANGED svcVars
    \/ \E c \in Calls : TaskUnlock(c) /\ UNCHANGED svcVars
    \/ \E r \in Readers, k \in FetchKeys : FetchInvoke(r, k) /\ UNCHANGED svcVars
    \/ \E r \in Readers : FetchRLock(r) /\ UNCHANGED svcVars
    \/ \E r \in Readers : FetchRead(r) /\ UNCHANGED svcVars
    \/ \E r \in Readers : FetchRUnlock(r) /\ UNCHANGED svcVars

\* the shutdown path alone: requests to /shutdown (and requests no handler
\* accepts), the goroutine of initiateShutdown, and Run
ShutdownNext ==
    \/ \E q \in Requests : \E kind \in {PostShutdown, GetOnHash} : Arrive(q, kind)
    \/ \E q \in Requests : MethodNotAllowed(q)
    \/ \E q \in Requests : OnceLoad(q)
    \/ \E q \in Requests : OnceLock(q)
    \/ \E q \in Requests : OnceCheck(q)
    \/ \E q \in Requests : OnceF(q)
    \/ \E q \in Requests : OnceStore(q)
    \/ \E q \in Requests : OnceUnlock(q)
    \/ \E q \in Requests : ShutdownRespond(q)
    \/ \E q \in Requests : HandlerReturn(q)
    \/ \E q \in Requests : CloserShutdown(q)
    \/ \E q \in Requests : CloserIdle(q)
    \/ \E q \in Requests : CloserClose(q)
    \/ RunServeReturns
    \/ RunAwait

\* the whole service: every request goes through its handler, and the calls
\* of the store and of the aggregator are the ones the handlers make
ServiceNext ==
    \/ \E q \in Requests : \E kind \in Kinds : Arrive(q, kind)
    \/ \E q \in Requests : PostBadRequest(q)
    \/ \E q \in Requests : \E c \in Calls : \E pw \in SecretsOf(c) : PostAdd(q, c, pw)
    \/ \E q \in Requests : PostCreated(q)
    \/ \E q \in Requests : MethodNotAllowed(q)
    \/ \E q \in Requests : \E r \in Readers : \E k \in FetchKeys : GetFetch(q, r, k)
    \/ \E q \in Requests : GetRespond(q)
    \/ \E q \in Requests : \E r \in Readers : StatsSnap(q, r)
    \/ \E q \in Requests : StatsRespond(q)
    \/ \E q \in Requests : OnceLoad(q)
    \/ \E q \in Requests : OnceLock(q)
    \/ \E q \in Requests : OnceCheck(q)
    \/ \E q \in Requests : OnceF(q)
    \/ \E q \in Requests : OnceStore(q)
    \/ \E q \in Requests : OnceUnlock(q)
    \/ \E q \in Requests : ShutdownRespond(q)
    \/ \E q \in Requests : \E i \in Updates : \E e \in HandlerElapsed : DeferredUpdate(q, i, e)
    \/ \E q \in Requests : UpdateReturned(q)
    \/ \E q \in Requests : HandlerReturn(q)
    \/ \E q \in Requests : CloserShutdown(q)
    \/ \E q \in Requests : CloserIdle(q)
    \/ \E q \in Requests : CloserClose(q)
    \/ RunServeReturns
    \/ RunAwait
    \/ \E c \in Calls : SubmitAnnounce(c) /\ UNCHANGED svcVars
    \/ \E c \in Calls : SubmitLock(c) /\ UNCHANGED svcVars
    \/ \E c \in Calls : SubmitInc(c) /\ UNCHANGED svcVars
    \/ \E c \in Calls : SubmitRead(c) /\ UNCHANGED svcVars
    \/ \E c \in Calls : SubmitUnlock(c) /\ UNCHANGED svcVars
    \/ \E c \in Calls : SubmitGo(c) /\ UNCHANGED svcVars
    \/ \E c \in Calls : SubmitReturn(c) /\ UNCHANGED svcVars
    \/ \E c \in Calls : TaskWake(c) /\ UNCHANGED svcVars
    \/ \E c \in Calls : TaskHash(c) /\ UNCHANGED svcVars
    \/ \E c \in Calls : TaskHashErr(c) /\ UNCHANGED svcVars
    \/ \E c \in Calls : TaskAnnounce(c) /\ UNCHANGED svcVars
    \/ \E c \in Calls : TaskLock(c) /\ UNCHANGED svcVars
    \/ \E c \in Calls : TaskInsert(c) /\ UNCHANGED svcVars
    \/ \E c \in Calls : TaskUnlock(c) /\ UNCHANGED svcVars
    \/ \E r \in Readers : FetchRLock(r) /\ UNCHANGED svcVars
    \/ \E r \in Readers : FetchRead(r) /\ UNCHANGED svcVars
    \/ \E r \in Readers : FetchRUnlock(r) /\ UNCHANGED svcVars
    \/ \E i \in Updates : UpdateAnnounce(i) /\ UNCHANGED svcVars
    \/ \E i \in Updates : UpdateLock(i) /\ UNCHANGED svcVars
    \/ \E i \in Updates : UpdateAverage(i) /\ UNCHANGED svcVars
    \/ \E i \in Updates : UpdateTotal(i) /\ UNCHANGED svcVars
    \/ \E i \in Updates : UpdateUnlock(i) /\ UNCHANGED svcVars
    \/ \E r \in Readers : SnapRLock(r) /\ UNCHANGED svcVars
    \/ \E r \in Readers : SnapCopyTotal(r) /\ UNCHANGED svcVars
    \/ \E r \in Readers : SnapCopyAverage(r) /\ UNCHANGED svcVars
    \/ \E r \in Readers : SnapRUnlock(r) /\ UNCHANGED svcVars

\* initiateShutdown, the goroutine it spawns, and Run
SpecShutdown == Init /\ [][ShutdownNext]_vars

\* the service as Run serves it
SpecService == Init /\ [][ServiceNext]_vars

\* the record store under concurrent AddPassword / GetPasswordHash calls
SpecStore == Init /\ [][StoreNext]_vars

\* the aggregator under concurrent Update / GetCurrentStats calls
SpecStats == Init /\ [][StatsNext]_vars

\* ------------------------------------------------------------- fairness
\* The Go scheduler runs every runnable goroutine, and sync.Mutex hands the
\* lock to a waiter that has waited long enough (starvation mode): a goroutine
\* that is past its invocation takes its next step, and one waiting for the
\* writers' mutex gets it if it is free again and again. Invocations and the
\* failure of alg.Write are the environment's and carry no fairness.
StoreFairness ==
    /\ \A c \in Calls :
          /\ SF_vars(SubmitAnnounce(c) /\ UNCHANGED svcVars) /\ WF_vars(SubmitLock(c) /\ UNCHANGED svcVars)
          /\ WF_vars(SubmitInc(c) /\ UNCHANGED svcVars) /\ WF_vars(SubmitRead(c) /\ UNCHANGED svcVars)
          /\ WF_vars(SubmitUnlock(c) /\ UNCHANGED svcVars) /\ WF_vars(SubmitGo(c) /\ UNCHANGED svcVars)
          /\ WF_vars(SubmitReturn(c) /\ UNCHANGED svcVars)
          /\ WF_vars(TaskWake(c) /\ UNCHANGED svcVars) /\ WF_vars(TaskHash(c) /\ UNCHANGED svcVars)
          /\ SF_vars(TaskAnnounce(c) /\ UNCHANGED svcVars) /\ WF_vars(TaskLock(c) /\ UNCHANGED svcVars)
          /\ WF_vars(TaskInsert(c) /\ UNCHANGED svcVars) /\ WF_vars(TaskUnlock(c) /\ UNCHANGED svcVars)
    /\ \A r \in Readers :
          /\ WF_vars(FetchRLock(r) /\ UNCHANGED svcVars) /\ WF_vars(FetchRead(r) /\ UNCHANGED svcVars)
          /\ WF_vars(FetchRUnlock(r) /\ UNCHANGED svcVars)

\* Fairness for the callers only: AddPassword and GetPasswordHash calls take
\* their steps and get the locks they wait for, and a spawned goroutine that
\* has entered s.mu.Lock() goes on to its Unlock; but nothing is assumed of a
\* spawned goroutine that sleeps or hashes: it may stay there for ever.
CallerFairness ==
    /\ \A c \in Calls :
          /\ SF_vars(SubmitAnnounce(c) /\ UNCHANGED svcVars) /\ WF_vars(SubmitLock(c) /\ UNCHANGED svcVars)
          /\ WF_vars(SubmitInc(c) /\ UNCHANGED svcVars) /\ WF_vars(SubmitRead(c) /\ UNCHANGED svcVars)
          /\ WF_vars(SubmitUnlock(c) /\ UNCHANGED svcVars) /\ WF_vars(SubmitGo(c) /\ UNCHANGED svcVars)
          /\ WF_vars(SubmitReturn(c) /\ UNCHANGED svcVars)
          /\ WF_vars(TaskLock(c) /\ UNCHANGED svcVars)
          /\ WF_vars(TaskInsert(c) /\ UNCHANGED svcVars) /\ WF_vars(TaskUnlock(c) /\ UNCHANGED svcVars)
    /\ \A r \in Readers :
          /\ WF_vars(FetchRLock(r) /\ UNCHANGED svcVars) /\ WF_vars(FetchRead(r) /\ UNCHANGED svcVars)
          /\ WF_vars(FetchRUnlock(r) /\ UNCHANGED svcVars)

\* the record store with fair callers, whatever the spawned goroutines do
CallerFairSpecStore == SpecStore /\ CallerFairness

\* The scheduler runs every handler, the goroutine of initiateShutdown and
\* Run; the mutex of sync.Once is handed to a waiter. Whether and when a
\* request arrives is the environment's.
ShutdownFairness ==
    /\ \A q \in Requests :
          /\ WF_vars(MethodNotAllowed(q)) /\ WF_vars(OnceLoad(q))
          /\ SF_vars(OnceLock(q)) /\ WF_vars(OnceCheck(q))
          /\ WF_vars(OnceF(q)) /\ WF_vars(OnceStore(q))
          /\ WF_vars(OnceUnlock(q)) /\ WF_vars(ShutdownRespond(q))
          /\ WF_vars(HandlerReturn(q))
          /\ WF_vars(CloserShutdown(q)) /\ WF_vars(CloserIdle(q))
          /\ WF_vars(CloserClose(q))
    /\ WF_vars(RunServeReturns) /\ WF_vars(RunAwait)

\* the shutdown path with a fair scheduler
FairSpecShutdown == SpecShutdown /\ ShutdownFairness

\* The whole service with a fair scheduler: every goroutine past its start
\* takes its next step if it can take it from some point on. Weak fairness is
\* all that is assumed, also for the locks: a behaviour has finitely many
\* calls, so a waiter is not overtaken for ever. The arrival of a request and
\* the failure of alg.Write are the environment's.
ServiceFairness ==
    /\ \A c \in Calls :
          /\ WF_vars(SubmitAnnounce(c) /\ UNCHANGED svcVars)
          /\ WF_vars(SubmitLock(c) /\ UNCHANGED svcVars)
          /\ WF_vars(SubmitInc(c) /\ UNCHANGED svcVars)
          /\ WF_vars(SubmitRead(c) /\ UNCHANGED svcVars)
          /\ WF_vars(SubmitUnlock(c) /\ UNCHANGED svcVars)
          /\ WF_vars(SubmitGo(c) /\ UNCHANGED svcVars)
          /\ WF_vars(SubmitReturn(c) /\ UNCHANGED svcVars)
          /\ WF_vars(TaskWake(c) /\ UNCHANGED svcVars)
          /\ WF_vars(TaskHash(c) /\ UNCHANGED svcVars)
          /\ WF_vars(TaskAnnounce(c) /\ UNCHANGED svcVars)
          /\ WF_vars(TaskLock(c) /\ UNCHANGED svcVars)
          /\ WF_vars(TaskInsert(c) /\ UNCHANGED svcVars)
          /\ WF_vars(TaskUnlock(c) /\ UNCHANGED svcVars)
    /\ \A i \in Updates :
          /\ WF_vars(UpdateAnnounce(i) /\ UNCHANGED svcVars)
          /\ WF_vars(UpdateLock(i) /\ UNCHANGED svcVars)
          /\ WF_vars(UpdateAverage(i) /\ UNCHANGED svcVars)
          /\ WF_vars(UpdateTotal(i) /\ UNCHANGED svcVars)
          /\ WF_vars(UpdateUnlock(i) /\ UNCHANGED svcVars)
    /\ \A r \in Readers :
          /\ WF_vars(FetchRLock(r) /\ UNCHANGED svcVars)
          /\ WF_vars(FetchRead(r) /\ UNCHANGED svcVars)
          /\ WF_vars(FetchRUnlock(r) /\ UNCHANGED svcVars)
          /\ WF_vars(SnapRLock(r) /\ UNCHANGED svcVars)
          /\ WF_vars(SnapCopyTotal(r) /\ UNCHANGED svcVars)
          /\ WF_vars(SnapCopyAverage(r) /\ UNCHANGED svcVars)
          /\ WF_vars(SnapRUnlock(r) /\ UNCHANGED svcVars)
    /\ \A q \in Requests :
          /\ WF_vars(PostBadRequest(q))
          /\ WF_vars(\E c \in Calls : \E pw \in SecretsOf(c) : PostAdd(q, c, pw))
          /\ WF_vars(PostCreated(q))
          /\ WF_vars(MethodNotAllowed(q))
          /\ WF_vars(\E r \in Readers : \E k \in FetchKeys : GetFetch(q, r, k))
          /\ WF_vars(GetRespond(q))
          /\ WF_vars(\E r \in Readers : StatsSnap(q, r))
          /\ WF_vars(StatsRespond(q))
          /\ WF_vars(OnceLoad(q)) /\ WF_vars(OnceLock(q))
          /\ WF_vars(OnceCheck(q)) /\ WF_vars(OnceF(q))
          /\ WF_vars(OnceStore(q)) /\ WF_vars(OnceUnlock(q))
          /\ WF_vars(ShutdownRespond(q))
          /\ WF_vars(\E i \in Updates : \E e \in HandlerElapsed : DeferredUpdate(q, i, e))
          /\ WF_vars(UpdateReturned(q))
          /\ WF_vars(HandlerReturn(q))
          /\ WF_vars(CloserShutdown(q)) /\ WF_vars(CloserIdle(q))
          /\ WF_vars(CloserClose(q))
    /\ WF_vars(RunServeReturns) /\ WF_vars(RunAwait)

\* the service with a fair scheduler and fair locks
FairSpecService == SpecService /\ ServiceFairness

\* the record store with a fair scheduler and fair locks
FairSpecStore == SpecStore /\ StoreFairness

\* ================================================================ claims

\* the AddPassword calls that are between invocation and return
InFlight == {c \in Calls : sub[c].pc \notin {"new", "returned"}}
\* the AddPassword calls that have read their key
Keyed == {c \in Calls : sub[c].pc \in {"a_unlock", "a_go", "a_ret", "returned"}}

\* C1: the keys returned by N concurrent AddPassword calls on a fresh store are
\* exactly 1..N: no two calls return the same key, and once the N calls have
\* all returned the set of their keys is 1..N.
C1_KeysExactlyOneToN ==
    /\ \A a, b \in Returned : a # b => sub[a].u # sub[b].u
    /\ InFlight = {} => ReturnedKeys = 1 .. Cardinality(Returned)

\* C1 witness: all the calls have returned, and they overlapped (the second
\* call invoked took the counter lock before the first).
C1_Witness ==
    /\ Returned = Calls
    /\ sub[1].rank > sub[2].rank

\* C2 (as claimed): the first key ever returned is 1, the counter never
\* decreases, and a call invoked after another has returned gets a larger key.
C2_Original ==
    /\ [](firstRet \in {0, 1})
    /\ [](\A c \in Returned : sub[c].prior < sub[c].u)
    /\ [][currentKey' >= currentKey]_vars

\* C2 (amended): the first key ever allocated is 1 (the call that takes the
\* counter lock first gets it, and no key is smaller), the counter never
\* decreases, and a call invoked after another has returned gets a larger key.
C2_Amended ==
    /\ [](\A c \in Keyed : sub[c].u >= 1 /\ (sub[c].rank = 1 => sub[c].u = 1))
    /\ [](\A c \in Returned : sub[c].prior < sub[c].u)
    /\ [][currentKey' >= currentKey]_vars

\* C2 witness: a call that was invoked after another call had returned has
\* itself returned.
C2_Witness == \E c \in Returned : sub[c].prior >= 1

\* C3 (as claimed): of any two AddPassword calls, the one invoked first gets
\* the smaller key.
C3_Original == \A a, b \in Keyed : a < b => sub[a].u < sub[b].u

\* C3 (amended): keys follow the order in which the calls take the counter
\* lock, not the order in which they are invoked: the n-th call to take the
\* lock gets key n.
C3_Amended == \A c \in Keyed : sub[c].u = sub[c].rank

\* C3 witness: two overlapping calls have returned, and the one invoked first
\* got the larger key.
C3_Witness ==
    /\ {1, 2} \subseteq Returned
    /\ sub[1].u > sub[2].u

\* the tasks that have performed their insert
Inserted == {c \in Calls : task[c].pc \in {"unlock", "done"}}

\* key k is in the map because of the task of call c, which has inserted the
\* digest of the password given to c, and no other call has the key k
InsertedBy(k, digest, c) ==
    /\ c \in Inserted
    /\ task[c].u = k
    /\ digest = SHA512Base64(sub[c].pw)
    /\ \A d \in Keyed \ {c} : sub[d].u # k

\* C4: GetPasswordHash(k) finds a digest only if the task of the call that
\* got key k has performed its insert (not while it sleeps, hashes or waits
\* for the lock), and the digest is that of the password given to that call.
C4_FoundOnlyAfterOwnInsert ==
    /\ \A k \in DOMAIN data : \E c \in Calls : InsertedBy(k, data[k], c)
    /\ \A r \in Readers :
          (get[r].pc = "f_runlock" /\ get[r].ok) =>
              \E c \in Calls : InsertedBy(get[r].u, get[r].encodedHash, c)

\* C4 witness: a lookup has found the digest of "a" under the key of the call
\* that posted "a", while another key holds the digest of "angryMonkey".
C4_Witness ==
    \E r \in Readers : \E c \in Calls :
        /\ get[r].pc = "f_runlock" /\ get[r].ok
        /\ sub[c].u = get[r].u /\ sub[c].pw = "a"
        /\ \E k \in DOMAIN data : data[k] = SHA512Base64("angryMonkey")

\* C5: under fair scheduling, every key returned by AddPassword whose digest
\* computation does not fail is eventually in the map, and stays there.
C5_EventuallyFound ==
    \A c \in Calls :
        (sub[c].pc = "returned") ~>
            (task[c].pc = "failed" \/ [](sub[c].u \in DOMAIN data))

\* C5 witness: every call has returned, no computation failed, and every key
\* is in the map.
C5_Witness ==
    /\ Returned = Calls
    /\ \A c \in Calls : task[c].pc = "done" /\ sub[c].u \in DOMAIN data

\* C6: the keys of the map are among 1..currentKey, and a lookup of key 0 or
\* of a key above the counter finds nothing.
C6_UnknownKeyNotFound ==
    /\ DOMAIN data \subseteq 1 .. currentKey
    /\ \A r \in Readers :
          (get[r].pc = "f_runlock" /\ (get[r].u = 0 \/ get[r].u > currentKey)) => ~get[r].ok

\* C6 witness: a lookup of a key above the counter has come back empty while
\* the map holds a digest.
C6_Witness ==
    \E r \in Readers :
        /\ get[r].pc = "f_runlock" /\ get[r].u > currentKey /\ ~get[r].ok
        /\ data # << >>

\* C7: no step removes or changes an entry of the map, and a task's insert
\* writes a key that was not there: every digest is written once and stays.
C7_WrittenOnceAndStable ==
    [][/\ \A k \in DOMAIN data : k \in DOMAIN data' /\ data'[k] = data[k]
       /\ \A c \in Calls :
             (task[c].pc = "insert" /\ task'[c].pc = "unlock") => task[c].u \notin DOMAIN data
      ]_vars

\* C7 witness: a lookup has found a digest in a map that holds two, written
\* by two tasks.
C7_Witness ==
    /\ Cardinality(DOMAIN data) >= 2
    /\ \E r \in Readers : get[r].pc = "f_runlock" /\ get[r].ok

\* the Update calls inside the critical section
Updating == {i \in Updates : upd[i].pc \in {"u_avg", "u_inc", "u_unlock"}}
RECURSIVE SumOf(_)
SumOf(es) == IF es = << >> THEN 0 ELSE es[1] + SumOf(Tail(es))
\* the statistics after the updates es, applied one after another
RECURSIVE Sequential(_)
Sequential(es) ==
    IF es = << >> THEN [Total |-> 0, Average |-> 0]
    ELSE LET before == Sequential(SubSeq(es, 1, Len(es) - 1))
         IN  [Total   |-> before.Total + 1,
              Average |-> NewAverage(before.Average, before.Total, es[Len(es)])]
Abs(x) == IF x < 0 THEN -x ELSE x

\* C8 (as claimed): after Update calls with elapsed e1..eN the total is N and
\* the average is less than 1 away from the exact mean (e1+...+eN)/N; after
\* 1000, 2000, 3000 the statistics are (3, 2000).
C8_AverageWithinOneOfMean ==
    (Updating = {} /\ applied # << >>) =>
        /\ Stats.Total = Len(applied)
        /\ Abs(Stats.Total * Stats.Average - SumOf(applied)) < Stats.Total
        /\ applied = <<1000, 2000, 3000>> => Stats = [Total |-> 3, Average |-> 2000]

\* C9: Update is atomic: outside a critical section the statistics are those
\* of the updates applied one after another in the order they took the lock
\* (none is lost: the total is their number), every completed call is counted,
\* and the total never decreases.
C9_UpdateAtomic ==
    /\ [](Updating = {} => (Stats = Sequential(applied) /\ Stats.Total = Len(applied)))
    /\ [](Cardinality({i \in Updates : upd[i].pc = "done"}) <= Stats.Total)
    /\ [][Stats'.Total >= Stats.Total]_vars

\* C9 witness: every Update call has completed, and the calls overlapped (the
\* first to take the lock was not the first invoked).
C9_Witness ==
    /\ \A i \in Updates : upd[i].pc = "done"
    /\ applied[1] # upd[1].elapsed

\* C10: the pair GetCurrentStats returns is one the aggregator held outside
\* any Update (the initial pair or the pair right after a completed Update),
\* and it is (0, 0) before any Update.
C10_SnapshotNotTorn ==
    \A r \in Readers :
        snap[r].pc = "s_runlock" =>
            /\ [Total |-> snap[r].Total, Average |-> snap[r].Average] \in held
            /\ applied = << >> => (snap[r].Total = 0 /\ snap[r].Average = 0)

\* C10 witness: a snapshot taken between two Updates is about to be returned
\* while a later Update waits for the lock.
C10_Witness ==
    \E r \in Readers :
        /\ snap[r].pc = "s_runlock" /\ snap[r].Total = 1 /\ snap[r].Average # 0
        /\ \E i \in Updates : upd[i].pc = "u_lock2"

\* ---------------------------------------------------------------- C11
\* the requests whose once.Do ran f and spawned the shutdown sequence
Spawned == {q \in Requests : closer[q] # "none"}
\* the requests whose initiateShutdown has returned
PastOnce == {q \in Requests :
                rq[q].kind = PostShutdown /\ rq[q].pc \in {"once_ret", "exit", "done"}}

\* C11: however many calls of initiateShutdown overlap, the shutdown sequence
\* (srv.Shutdown, then close(idleConnsClosed)) is started by exactly one of
\* them: at most one goroutine is ever spawned, and one has been spawned as
\* soon as any call has returned; the channel is closed at most once, exactly
\* once when the sequence has ended, and no second close is executed; the
\* server is shut down by that sequence only.
C11_ShutdownStartedOnce ==
    /\ Cardinality(Spawned) <= 1
    /\ closes <= 1
    /\ PastOnce # {} => Cardinality(Spawned) = 1
    /\ \A q \in Spawned : closer[q] = "done" <=> closes = 1
    /\ inShutdown => Spawned # {}

\* two overlapping calls: one has spawned the sequence; the other went past
\* the fast path before o.done was set, and finds it set under the mutex
C11_Witness ==
    \E p, q \in Requests :
        /\ p # q /\ p \in Spawned /\ q \notin Spawned
        /\ rq[q].pc = "o_unlock"

\* ---------------------------------------------------------------- C12
\* the lifecycle state of the service: Running until once.Do has run f,
\* ShuttingDown while the sequence runs, Stopped once idleConnsClosed is closed
ShutdownState ==
    IF closes > 0 THEN "Stopped"
    ELSE IF Spawned # {} THEN "ShuttingDown" ELSE "Running"

\* C12: the lifecycle state changes only from Running to ShuttingDown, and
\* then only by the step of a /shutdown request that runs f inside once.Do
\* (no other request, no step of the store, of the aggregator or of a spawned
\* goroutine changes it), and from ShuttingDown to Stopped; while the state is
\* ShuttingDown or Stopped no call of initiateShutdown starts anything; once
\* Stopped, the state stays Stopped and the channel is not closed again.
C12_Lifecycle ==
    [][ /\ ShutdownState' # ShutdownState =>
              \/ /\ ShutdownState = "Running" /\ ShutdownState' = "ShuttingDown"
                 /\ \E q \in Requests :
                       /\ rq[q].kind = PostShutdown /\ rq[q].pc = "o_f"
                       /\ rq'[q].pc # rq[q].pc
                 /\ storeVars' = storeVars /\ statsVars' = statsVars
              \/ ShutdownState = "ShuttingDown" /\ ShutdownState' = "Stopped"
        /\ ShutdownState # "Running" => Spawned' = Spawned
        /\ ShutdownState = "Stopped" => closes' = closes /\ ShutdownState' = "Stopped"
      ]_vars

\* Stopped, after a second /shutdown request found the sequence started
C12_Witness ==
    /\ ShutdownState = "Stopped"
    /\ \E q \in PastOnce : q \notin Spawned

\* ---------------------------------------------------------------- C13
\* C13: Run returns only after the completion channel is closed: whenever Run
\* has returned, initiateShutdown was called (a /shutdown request went through
\* once.Do, which is done), srv.Shutdown was called and has returned (the
\* goroutine is past it), and idleConnsClosed is closed; and Run leaves
\* ListenAndServe only after srv.Shutdown was called.
C13_RunReturnsAfterClose ==
    /\ run = "returned" =>
          /\ once.done
          /\ \E q \in Spawned : rq[q].kind = PostShutdown /\ closer[q] = "done"
          /\ inShutdown
          /\ closes = 1
    /\ run = "await" => inShutdown /\ Spawned # {}

\* Run has returned
C13_Witness == run = "returned" /\ Active = {}

\* ---------------------------------------------------------------- C14
\* the requests whose handler has returned, deferred calls included
Done == {q \in Requests : rq[q].pc = "done"}
\* the POST requests to /hash, with or without a password
HashPosts == {q \in Requests : rq[q].kind \in {PostHash, PostHashEmpty}}

\* C14 as stated: Update is called once for every completed request,
\* whatever its route, method and outcome, so that once R requests have
\* completed (and none is being served) the total is R.
C14_Original == Active = {} => Stats.Total = Cardinality(Done)

\* C14, amended: Update is called exactly once for every POST request to /hash
\* that completes, whether it got a key or was rejected, and for no other
\* request: the Update calls made so far are those of the POST /hash requests
\* that have reached the end of their handler, one each, a completed one's
\* Update has returned, and once no request is being served the total is the
\* number of completed POST /hash requests.
C14_Amended ==
    /\ Cardinality({i \in Updates : upd[i].pc # "new"})
          = Cardinality({q \in HashPosts : rq[q].pc \in {"in_update", "done"}})
    /\ \A p, q \in HashPosts \cap Done :
          /\ upd[rq[q].call].pc = "done"
          /\ p # q => rq[p].call # rq[q].call
    /\ Active = {} => Stats.Total = Cardinality(HashPosts \cap Done)

\* a POST to /hash and a request of another kind have both completed
C14_Witness ==
    /\ Active = {}
    /\ HashPosts \cap Done # {}
    /\ Done \ HashPosts # {}
    /\ Stats.Total = 1

\* ---------------------------------------------------------------- C15
\* the calls whose goroutine took the return of "if err != nil"
Failed == {c \in Calls : task[c].pc = "failed"}

\* C15: a goroutine whose alg.Write fails stores nothing and takes no lock:
\* its key is never in the map, it is in no part of the mutex, the step that
\* fails changes neither the map nor the mutex, and it stays failed (no
\* retry), so a GetPasswordHash that reads its key finds nothing; and failure
\* is the only way to stay unresolved: with fair scheduling every key of a
\* spawned goroutine is eventually either failed or in the map for good.
C15_FailureLeavesKeyAbsent ==
    /\ [](\A c \in Failed :
              /\ task[c].u \notin DOMAIN data
              /\ Task(c) \notin mu.w \cup mu.excl \cup mu.readers
              /\ \A r \in Readers :
                    get[r].pc = "f_runlock" /\ get[r].u = task[c].u => ~get[r].ok)
    /\ [][\A c \in Calls :
              /\ task[c].pc = "hash" /\ task'[c].pc = "failed"
                    => data' = data /\ mu' = mu
              /\ c \in Failed => task'[c] = task[c]]_vars
    /\ \A c \in Calls :
          (task[c].pc # "none") ~> (c \in Failed \/ [](task[c].u \in DOMAIN data))

\* a key whose computation failed has been looked up, and another key is resolved
C15_Witness ==
    \E c \in Failed : \E r \in Readers :
        /\ get[r].pc = "f_runlock" /\ get[r].u = task[c].u
        /\ \E d \in Calls : task[d].pc = "done"

\* ---------------------------------------------------------------- C16
\* C16 as stated: AddPassword waits for no step of its goroutine, no sleeping
\* or hashing goroutine holds a lock, and a call always returns while its own
\* goroutine is still in time.Sleep: a call that is about to return has its
\* goroutine sleeping.
C16_Original ==
    /\ \A c \in Calls : sub[c].pc = "a_ret" => ENABLED SubmitReturn(c)
    /\ \A c \in Calls : task[c].pc \in {"sleep", "hash"}
                            => Task(c) \notin mu.w \cup mu.excl \cup mu.readers
    /\ \A c \in Calls : sub[c].pc = "a_ret" => task[c].pc = "sleep"

\* C16, amended: AddPassword waits for no step of its goroutine: once the
\* goroutine is spawned the return is enabled whatever the goroutine does (so
\* the call can return while the goroutine sleeps, but the code does not order
\* the return before the end of the sleep); a goroutine that sleeps or hashes
\* holds no part of the lock; and even if the spawned goroutines sleep or hash
\* for ever, every AddPassword call returns and every GetPasswordHash call
\* gets its read lock and reads.
C16_Amended ==
    /\ [](\A c \in Calls : sub[c].pc = "a_ret" => ENABLED SubmitReturn(c))
    /\ [](\A c \in Calls : task[c].pc \in {"sleep", "hash"}
                               => Task(c) \notin mu.w \cup mu.excl \cup mu.readers)
    /\ \A c \in Calls : (sub[c].pc # "new") ~> (sub[c].pc = "returned")
    /\ \A r \in Readers : (get[r].pc = "f_rlock") ~> (get[r].pc = "f_runlock")

\* the later call has returned and a lookup has read while the goroutine of
\* the earlier call still sleeps, its own goroutine sleeping too
C16_Witness ==
    /\ \A c \in Calls : sub[c].pc = "returned" /\ task[c].pc = "sleep"
    /\ \E r \in Readers : get[r].pc = "f_runlock"

\* ---------------------------------------------------------------- C17
\* the calls whose key is neither in the map nor given up
Pending == {c \in Calls : task[c].pc \in {"sleep", "hash", "lock1", "lock2", "insert"}}

\* C17: shutting down neither cancels nor waits for the spawned goroutines:
\* no step of initiateShutdown, of the goroutine running srv.Shutdown and the
\* close, or of Run changes a spawned goroutine or the store; srv.Shutdown
\* returns as soon as no handler is running, whatever the spawned goroutines
\* are doing; and a pending goroutine can take its next step (or is waiting
\* for the store's lock) in every lifecycle state, Stopped included.
C17_ShutdownIgnoresTasks ==
    /\ [][ (once' # once \/ closer' # closer \/ inShutdown' # inShutdown
               \/ closes' # closes \/ run' # run)
             => task' = task /\ data' = data /\ mu' = mu ]_vars
    /\ [](\A q \in Requests :
              closer[q] = "wait_idle" /\ Active = {} => ENABLED CloserIdle(q))
    /\ [](\A c \in Calls :
              \/ task[c].pc # "sleep"
              \/ ENABLED (TaskWake(c) /\ UNCHANGED svcVars))

\* Run has returned after the close while a posted password is not hashed yet
C17_Witness ==
    /\ ShutdownState = "Stopped" /\ run = "returned"
    /\ \E c \in Pending : sub[c].pc = "returned" /\ sub[c].u \notin DOMAIN data

\* ---------------------------------------------------------------- C18
\* C18: the store's lock is held exclusively only around the counter
\* increment of AddPassword and around the one map insert of a spawned
\* goroutine: a caller is a writer only between its Lock and its Unlock
\* (increment, read of the counter), a spawned goroutine only for its insert,
\* and by then it has slept and hashed (it carries the digest of its
\* password); a goroutine that sleeps or hashes, or has given up, is in no
\* part of the mutex; at most one goroutine is in the writers' mutex and at
\* most one holds the lock, never together with a reader; a reader is in the
\* lock only for its map read.
C18_LockDiscipline ==
    /\ \A c \in Calls :
          /\ Req(c) \in mu.w <=> sub[c].pc \in {"a_lock2", "a_inc", "a_read", "a_unlock"}
          /\ Req(c) \in mu.excl <=> sub[c].pc \in {"a_inc", "a_read", "a_unlock"}
          /\ Task(c) \in mu.w <=> task[c].pc \in {"lock2", "insert", "unlock"}
          /\ Task(c) \in mu.excl <=> task[c].pc \in {"insert", "unlock"}
          /\ Task(c) \in mu.excl => task[c].encodedHash = SHA512Base64(task[c].pw)
          /\ task[c].pc \in {"sleep", "hash", "failed", "done"}
                => Task(c) \notin mu.w \cup mu.excl \cup mu.readers
    /\ Cardinality(mu.w) <= 1
    /\ Cardinality(mu.excl) <= 1
    /\ mu.excl # {} => mu.readers = {}
    /\ \A r \in Readers : Rdr(r) \in mu.readers <=> get[r].pc \in {"f_read", "f_runlock"}
    /\ mu.readers \subseteq {Rdr(r) : r \in Readers}

\* a spawned goroutine holds the lock for its insert while another one sleeps
\* or hashes and a reader waits for the lock
C18_Witness ==
    /\ \E c \in Calls : task[c].pc = "insert" /\ Task(c) \in mu.excl
    /\ \E d \in Calls : task[d].pc \in {"sleep", "hash"}
    /\ \E r \in Readers : get[r].pc = "f_rlock"

\* ---------------------------------------------------------------- C19
\* C19: initiateShutdown does not wait for srv.Shutdown: after f has spawned
\* the goroutine, every remaining step of the /shutdown request (the end of
\* once.Do, the response, the return of the handler) is enabled whatever the
\* goroutine does, and the request that started the sequence completes; and
\* with a fair scheduler, once a /shutdown request is in its handler, the
\* channel is eventually closed (once) and Run eventually returns.
C19_ShutdownCompletes ==
    /\ [](\A q \in Spawned :
              /\ rq[q].pc = "o_store" => ENABLED OnceStore(q)
              /\ rq[q].pc = "o_unlock" => ENABLED OnceUnlock(q)
              /\ rq[q].pc = "once_ret" => ENABLED ShutdownRespond(q)
              /\ rq[q].pc = "exit" => ENABLED HandlerReturn(q))
    /\ \A q \in Requests : (q \in Spawned) ~> (rq[q].pc = "done")
    /\ \A q \in Requests :
          (rq[q].kind = PostShutdown /\ rq[q].pc = "body")
              ~> [](closes = 1 /\ run = "returned")

\* every request asked for the shutdown, all are served, and Run has returned
C19_Witness ==
    /\ \A q \in Requests : rq[q].kind = PostShutdown /\ rq[q].pc = "done"
    /\ closes = 1 /\ run = "returned"

\* ---------------------------------------------------------------- C20
\* nobody is between a Lock and its Unlock, or an RLock and its RUnlock
StoreIdle ==
    /\ \A c \in Calls :
          /\ sub[c].pc \in {"new", "a_lock1", "a_go", "a_ret", "returned"}
          /\ task[c].pc \in {"none", "sleep", "hash", "lock1", "failed", "done"}
    /\ \A r \in Readers : get[r].pc \in {"idle", "f_rlock"}
StatsIdle ==
    /\ \A i \in Updates : upd[i].pc \in {"new", "u_lock1", "done"}
    /\ \A r \in Readers : snap[r].pc \in {"idle", "s_rlock"}

\* no AddPassword or GetPasswordHash call is in progress; no Update or
\* GetCurrentStats call is
NoStoreCall ==
    /\ \A c \in Calls : sub[c].pc \in {"new", "returned"}
    /\ \A r \in Readers : get[r].pc = "idle"
NoStatsCall ==
    /\ \A i \in Updates : upd[i].pc \in {"new", "done"}
    /\ \A r \in Readers : snap[r].pc = "idle"

\* C20: no lock leaks and nothing deadlocks: whenever nobody is between a
\* Lock and its Unlock (or an RLock and its RUnlock) the mutex is free, for
\* the store and for the aggregator, also after a goroutine gave up on a
\* failed alg.Write; a request that is in Update made its AddPassword call
\* before and that call has returned, so nobody holds one of the two locks
\* while waiting for the other; and with a fair scheduler no call stays in
\* progress and no lock stays taken: again and again every AddPassword and
\* GetPasswordHash call that has started has returned and the store's lock is
\* free, and likewise every Update and GetCurrentStats call and the
\* aggregator's lock.
C20_NoLeakNoDeadlock ==
    /\ [](StoreIdle => mu = NewRWMutex)
    /\ [](StatsIdle => smu = NewRWMutex)
    /\ [](\A q \in Requests :
              rq[q].pc = "in_update" /\ rq[q].add # 0
                 => /\ sub[rq[q].add].pc = "returned"
                    /\ Req(rq[q].add) \notin mu.w \cup mu.excl \cup mu.readers)
    /\ []<>(NoStoreCall /\ mu = NewRWMutex)
    /\ []<>(NoStatsCall /\ smu = NewRWMutex)

\* everything has returned, a goroutine that gave up included, and both
\* locks are free
C20_Witness ==
    /\ \E c \in Calls : task[c].pc = "failed"
    /\ \E c \in Calls : task[c].pc = "done"
    /\ \A q \in Requests : rq[q].kind = PostHash /\ rq[q].pc = "done"
    /\ mu = NewRWMutex /\ smu = NewRWMutex

====
